---- MODULE Spec2Model ----
(***************************************************************************)
(* A model of the LWIR temporal compressor (ceresimaging/lwir-compress):   *)
(* the residual arithmetic (residual.cpp), the 12-bit range mapper         *)
(* (bitdepth.cpp), the closed-loop frame codec FrameEncoder (encoder.cpp)  *)
(* and the outer loop CompressionPipeline::run (pipeline.cpp).             *)
(*                                                                         *)
(* The JPEG-LS coder (CharLS) is an external collaborator.  It is modelled *)
(* by its contract: the byte string it emits is represented by the header  *)
(* (width, height, bits per sample) and the samples a decoder gets back    *)
(* from it, each within NEAR of the sample that was encoded and inside     *)
(* [0, 2^bits - 1]; an encode or a decode may also fail.                   *)
(*                                                                         *)
(* All 32-bit intermediate values of the modelled inputs stay below 2^31,  *)
(* so uint32_t arithmetic is plain arithmetic here; the casts to int16_t   *)
(* and uint16_t keep their width (S16, U16).                               *)
(***************************************************************************)
EXTENDS Integers, Sequences, FiniteSets, TLC

VARIABLES
    enc,      \* the encoding FrameEncoder: reference_frame_, reference_frame_initialized_
    dec,      \* the decoding FrameEncoder (a second instance of the same class)
    stream,   \* CompressedFrame records emitted and not yet decoded, in order
    last,     \* what the last call was, its arguments and its results
    inSync,   \* the decoder has been fed exactly the records the encoder emitted
    cleared,  \* per instance: reset() was called and no intra frame processed since
    steps,    \* number of encode calls made on the encoding instance
    qs,       \* the bench of the sample arithmetic: an input, its parameters, the results
    pipe      \* CompressionPipeline::run: its position, its counters, its decision engine

vars == <<enc, dec, stream, last, inSync, cleared, steps, qs, pipe>>

----------------------------------------------------------------------------
(* Integer helpers *)

Abs(x) == IF x >= 0 THEN x ELSE -x

Pow2(n) == 2 ^ n

\* static_cast<uint16_t>(x)
U16(x) == x % 65536

\* static_cast<int16_t>(x): two's complement wrap
S16(x) == LET m == x % 65536 IN IF m >= 32768 THEN m - 65536 ELSE m

\* std::clamp(val, lo, hi)
Clamp(v, lo, hi) == IF v < lo THEN lo ELSE IF v > hi THEN hi ELSE v

\* ceil(a / b) for a >= 0, b > 0
SeqMin(s) == CHOOSE m \in {s[i] : i \in DOMAIN s} : \A i \in DOMAIN s : m <= s[i]

SeqMax(s) == CHOOSE m \in {s[i] : i \in DOMAIN s} : \A i \in DOMAIN s : m >= s[i]

----------------------------------------------------------------------------
(* residual.hpp / residual.cpp *)

\* QuantizationParams(T, Q, fp): Q is a double, given here as the rational
\* Q.num / Q.den; quant_Q_fixed = static_cast<uint32_t>(Q * 2^fp + 0.5)
QuantizationParams(T, Q, fp) ==
    [dead_zone_T   |-> T,
     quant_Q_fixed |-> (2 * Q.num * Pow2(fp) + Q.den) \div (2 * Q.den),
     fp_bits       |-> fp]

\* get_Q() without the cast to double: an integer division
get_Q_truncated(params) ==
    [num |-> params.quant_Q_fixed \div Pow2(params.fp_bits), den |-> 1]

\* get_Q(): quant_Q_fixed / 2^fp_bits as a double
get_Q(params) == [num |-> params.quant_Q_fixed, den |-> Pow2(params.fp_bits)]

\* residual[i] = static_cast<int16_t>(current[i]) - static_cast<int16_t>(previous[i]),
\* stored into an int16_t
compute_residual(current, previous) ==
    [i \in DOMAIN current |-> S16(S16(current[i]) - S16(previous[i]))]

\* q_abs of quantize_residual for one sample, before the cast to int16_t
quantize_magnitude(R, params) ==
    LET T  == params.dead_zone_T
        a2 == IF Abs(R) > T THEN Abs(R) - T ELSE 0
    IN  (a2 * Pow2(params.fp_bits) + Pow2(params.fp_bits - 1)) \div params.quant_Q_fixed

\* one sample of quantize_residual
quantize_sample(R, params) ==
    LET T         == params.dead_zone_T
        Q_fixed   == params.quant_Q_fixed
        fp_bits   == params.fp_bits
        rounding  == Pow2(fp_bits - 1)
        sign      == IF R >= 0 THEN 1 ELSE -1
        abs_R     == Abs(R)
        a2        == IF abs_R > T THEN abs_R - T ELSE 0
        numerator == a2 * Pow2(fp_bits) + rounding
        q_abs     == numerator \div Q_fixed
    IN  S16(sign * q_abs)

quantize_residual(residual, params) ==
    [i \in DOMAIN residual |-> quantize_sample(residual[i], params)]

\* dequantize_sample that loses the sign of q
dequantize_sample_unsigned(q, params) ==
    IF q = 0 THEN 0
    ELSE S16(((Abs(q) * params.quant_Q_fixed) \div Pow2(params.fp_bits))
             + params.dead_zone_T \div 2)

\* one sample of dequantize_residual
dequantize_sample(q, params) ==
    LET T         == params.dead_zone_T
        Q_fixed   == params.quant_Q_fixed
        fp_bits   == params.fp_bits
        T_half    == T \div 2
        sign      == IF q >= 0 THEN 1 ELSE -1
        abs_q     == Abs(q)
        recon_abs == ((abs_q * Q_fixed) \div Pow2(fp_bits)) + T_half
    IN  IF q = 0 THEN 0 ELSE S16(sign * recon_abs)

dequantize_residual(quantized, params) ==
    [i \in DOMAIN quantized |-> dequantize_sample(quantized[i], params)]

\* reconstruct_frame that wraps to 16 bits instead of saturating
reconstruct_frame_wrapping(residual, previous) ==
    [i \in DOMAIN residual |-> U16(previous[i] + residual[i])]

\* reconstructed[i] = clamp(previous[i] + residual[i], 0, 65535)
reconstruct_frame(residual, previous) ==
    [i \in DOMAIN residual |-> Clamp(previous[i] + residual[i], 0, 65535)]

add_residual_to_reference(reference, residual) ==
    reconstruct_frame(residual, reference)

----------------------------------------------------------------------------
(* bitdepth.hpp / bitdepth.cpp *)

RangeMap(min_val, max_val) ==
    [min_value |-> min_val, max_value |-> max_val, range |-> max_val - min_val]

is_beneficial(map) == map.range < 32768

compute_range_map(data) ==
    IF Len(data) = 0 THEN RangeMap(0, 0) ELSE RangeMap(SeqMin(data), SeqMax(data))

map_to_12bit(src, map) ==
    IF map.range = 0
    THEN [i \in DOMAIN src |-> 0]
    ELSE [i \in DOMAIN src |->
            U16(((src[i] - map.min_value) * 4095 + map.range \div 2) \div map.range)]

\* map_from_12bit that leaves out the offset min
map_from_12bit_no_offset(src, map) ==
    IF map.range = 0
    THEN [i \in DOMAIN src |-> map.min_value]
    ELSE [i \in DOMAIN src |-> U16((src[i] * map.range + 2047) \div 4095)]

map_from_12bit(src, map) ==
    IF map.range = 0
    THEN [i \in DOMAIN src |-> map.min_value]
    ELSE [i \in DOMAIN src |->
            U16(((src[i] * map.range + 2047) \div 4095) + map.min_value)]

----------------------------------------------------------------------------
(* frame.hpp *)

\* Frame(): the timestamp and the frame index take no part in the arithmetic
\* and are left out
Frame(w, h, data) == [width |-> w, height |-> h, data |-> data]

EmptyFrame == Frame(0, 0, << >>)

NoBytes == [width |-> 0, height |-> 0, bits |-> 0, samples |-> << >>]

\* CompressedFrame(): the default-constructed record
CompressedFrame ==
    [compressed_data |-> NoBytes,
     width           |-> 0,
     height          |-> 0,
     is_keyframe     |-> FALSE,
     near_lossless   |-> 0,
     quant_Q         |-> [num |-> 0, den |-> 1],
     dead_zone_T     |-> 0,
     fp_bits         |-> 0,
     range_min       |-> 0,
     range_max       |-> 65535,
     use_range_map   |-> FALSE]

----------------------------------------------------------------------------
(* encoder.cpp: the symbol codec adapter *)

\* encode_charls_16bit: `fault` says whether CharLS reports an error, `err`
\* is the per-sample reconstruction error the emitted bytes carry
\* (|err[i]| <= near_lossless).
encode_charls_16bit(data, width, height, near_lossless, bits_per_sample, fault, err) ==
    [ok     |-> fault # "encode",
     output |-> [width   |-> width,
                 height  |-> height,
                 bits    |-> bits_per_sample,
                 samples |-> [i \in DOMAIN data |->
                                Clamp(data[i] + err[i], 0, Pow2(bits_per_sample) - 1)]]]

\* decode_charls_16bit: fails on a CharLS error and on a header that does
\* not match the expected width, height or bit depth
decode_charls_16bit(compressed_data, width, height, fault) ==
    [ok     |-> /\ fault # "decode"
                /\ compressed_data.width = width
                /\ compressed_data.height = height
                /\ compressed_data.bits \in {12, 16},
     output |-> compressed_data.samples]

----------------------------------------------------------------------------
(* encoder.cpp: FrameEncoder *)

\* FrameEncoder::FrameEncoder()
FrameEncoder ==
    [reference_frame_ |-> EmptyFrame, reference_frame_initialized_ |-> FALSE]

\* intra_range_map that maps whenever the 12-bit mode is requested
intra_range_map_always(frame, enable_12bit_mode) ==
    LET range_map == compute_range_map(frame.data)
    IN  IF enable_12bit_mode
        THEN [use_range_map |-> TRUE,
              range_min |-> range_map.min_value, range_max |-> range_map.max_value]
        ELSE [use_range_map |-> FALSE, range_min |-> 0, range_max |-> 65535]

\* the range-map decision of encode_intra_frame (lines 208-229)
intra_range_map(frame, enable_12bit_mode) ==
    LET range_map == compute_range_map(frame.data)
    IN  IF enable_12bit_mode /\ is_beneficial(range_map)
        THEN [use_range_map |-> TRUE,
              range_min |-> range_map.min_value, range_max |-> range_map.max_value]
        ELSE [use_range_map |-> FALSE, range_min |-> 0, range_max |-> 65535]

\* intra_unmap without the inverse map: the decoded 12-bit samples are stored
intra_unmap_skipped(decoded, output) == decoded

\* the closed-loop refresh of encode_intra_frame (lines 251-257): the decoded
\* samples are mapped back when the range map was used
intra_unmap(decoded, output) ==
    IF output.use_range_map
    THEN map_from_12bit(decoded, RangeMap(output.range_min, output.range_max))
    ELSE decoded

\* FrameEncoder::encode_intra_frame; the result is the return value, the
\* object after the call and the caller's output record after the call
encode_intra_frame(self, frame, near_lossless, output, enable_12bit_mode, fault, err) ==
    LET rm   == intra_range_map(frame, enable_12bit_mode)
        out1 == [output EXCEPT !.width = frame.width,
                               !.height = frame.height,
                               !.is_keyframe = TRUE,
                               !.near_lossless = near_lossless,
                               !.quant_Q = [num |-> 0, den |-> 1],
                               !.dead_zone_T = 0,
                               !.fp_bits = 0,
                               !.use_range_map = rm.use_range_map,
                               !.range_min = rm.range_min,
                               !.range_max = rm.range_max]
        data_to_encode  == IF rm.use_range_map
                           THEN map_to_12bit(frame.data, compute_range_map(frame.data))
                           ELSE frame.data
        bits_per_sample == IF rm.use_range_map THEN 12 ELSE 16
        e    == encode_charls_16bit(data_to_encode, frame.width, frame.height,
                                    near_lossless, bits_per_sample, fault, err)
        out2 == [out1 EXCEPT !.compressed_data = e.output]
        d    == decode_charls_16bit(out2.compressed_data, frame.width, frame.height, fault)
    IN  IF ~e.ok THEN [ok |-> FALSE, self |-> self, output |-> out1]
        ELSE IF ~d.ok THEN [ok |-> FALSE, self |-> self, output |-> out2]
        ELSE [ok     |-> TRUE,
              self   |-> [reference_frame_ |->
                              Frame(frame.width, frame.height, intra_unmap(d.output, out2)),
                          reference_frame_initialized_ |-> TRUE],
              output |-> out2]

\* residual_precondition comparing the pixel counts instead of the dimensions
residual_precondition_by_count(self, frame) ==
    /\ self.reference_frame_initialized_
    /\ frame.width * frame.height
         = self.reference_frame_.width * self.reference_frame_.height

\* the preconditions of encode_residual_frame (lines 277-285)
residual_precondition(self, frame) ==
    /\ self.reference_frame_initialized_
    /\ frame.width = self.reference_frame_.width
    /\ frame.height = self.reference_frame_.height

\* the bias of step 3 and its inverse (lines 307-310, 347-350)
bias_to_unsigned(quantized) == [i \in DOMAIN quantized |-> U16(quantized[i] + 32768)]

unbias_to_signed(decoded_unsigned) ==
    [i \in DOMAIN decoded_unsigned |-> S16(decoded_unsigned[i] - 32768)]

\* step 5 of encode_residual_frame (lines 332-378): the reference data the
\* call stores
residual_new_reference(self, frame, near_lossless, quant_params, decoded_unsigned) ==
    IF near_lossless > 0
    THEN add_residual_to_reference(
             self.reference_frame_.data,
             dequantize_residual(unbias_to_signed(decoded_unsigned), quant_params))
    ELSE frame.data

\* FrameEncoder::encode_residual_frame
encode_residual_frame(self, frame, near_lossless, quant_params, output, fault, err) ==
    IF ~residual_precondition(self, frame)
    THEN [ok |-> FALSE, self |-> self, output |-> output]
    ELSE
    LET residual  == compute_residual(frame.data, self.reference_frame_.data)
        quantized == quantize_residual(residual, quant_params)
        quantized_unsigned == bias_to_unsigned(quantized)
        out1 == [output EXCEPT !.width = frame.width,
                               !.height = frame.height,
                               !.is_keyframe = FALSE,
                               !.near_lossless = near_lossless,
                               !.quant_Q = get_Q(quant_params),
                               !.dead_zone_T = quant_params.dead_zone_T,
                               !.fp_bits = quant_params.fp_bits]
        e    == encode_charls_16bit(quantized_unsigned, frame.width, frame.height,
                                    near_lossless, 16, fault, err)
        out2 == [out1 EXCEPT !.compressed_data = e.output]
        d    == decode_charls_16bit(out2.compressed_data, frame.width, frame.height, fault)
    IN  IF ~e.ok THEN [ok |-> FALSE, self |-> self, output |-> out1]
        ELSE IF near_lossless > 0 /\ ~d.ok
        THEN [ok |-> FALSE, self |-> self, output |-> out2]
        ELSE [ok     |-> TRUE,
              self   |-> [self EXCEPT !.reference_frame_.data =
                              residual_new_reference(self, frame, near_lossless,
                                                     quant_params, d.output)],
              output |-> out2]

\* the intra branch of decode_frame (lines 409-417): what the call does with
\* the decoded samples; the object is returned as it is left
decode_intra(self, compressed, decoded) ==
    [self |-> self, data |-> decoded]

\* FrameEncoder::decode_frame; output is the caller's Frame after the call
decode_frame(self, compressed, fault) ==
    LET d == decode_charls_16bit(compressed.compressed_data,
                                 compressed.width, compressed.height, fault)
    IN
    IF compressed.is_keyframe
    THEN IF d.ok
         THEN LET r == decode_intra(self, compressed, d.output)
              IN  [ok |-> TRUE, self |-> r.self,
                   output |-> Frame(compressed.width, compressed.height, r.data)]
         ELSE [ok |-> FALSE, self |-> self,
               output |-> Frame(compressed.width, compressed.height, << >>)]
    ELSE IF ~self.reference_frame_initialized_ \/ ~d.ok
         THEN [ok |-> FALSE, self |-> self,
               output |-> Frame(compressed.width, compressed.height, << >>)]
         ELSE
         LET quant_params == QuantizationParams(compressed.dead_zone_T,
                                                compressed.quant_Q, compressed.fp_bits)
             reconstructed_residual ==
                 dequantize_residual(unbias_to_signed(d.output), quant_params)
             data == add_residual_to_reference(self.reference_frame_.data,
                                               reconstructed_residual)
         IN  [ok     |-> TRUE,
              self   |-> [self EXCEPT !.reference_frame_.data = data],
              output |-> Frame(compressed.width, compressed.height, data)]

\* reset that clears the samples and leaves the flag set
reset_keeps_flag(self) == [self EXCEPT !.reference_frame_.data = << >>]

\* reset that clears nothing
reset_noop(self) == self

\* FrameEncoder::reset
reset(self) ==
    [self EXCEPT !.reference_frame_initialized_ = FALSE,
                 !.reference_frame_.data = << >>]

\* FrameEncoder::encode_frame
encode_frame(self, frame, is_keyframe, keyframe_near, residual_near, quant_params, output, enable_12bit_mode, fault, err) ==
    IF is_keyframe
    THEN encode_intra_frame(self, frame, keyframe_near, output, enable_12bit_mode, fault, err)
    ELSE encode_residual_frame(self, frame, residual_near, quant_params, output, fault, err)

----------------------------------------------------------------------------
(* config.hpp / config.cpp: the decision engine the pipeline uses.  The    *)
(* doubles of the engine are fixed-point numbers here: a bits-per-pixel    *)
(* value x is the integer x * EmaScale.  Compressed sizes are counted in   *)
(* blocks of 4096 bytes, so that bits_per_pixel = 8 * bytes / (640 * 512)  *)
(* = blocks / 10 and every EMA of at most MaxFiles or MaxFrames samples is *)
(* exact.                                                                  *)

\* number of input files of one pipeline run
MaxFiles == 2

\* number of frames the decision engine is driven over
MaxFrames == 5

EmaScale == 10 ^ ((IF MaxFiles > MaxFrames THEN MaxFiles ELSE MaxFrames) + 1)

\* ResidualStats(): the default-constructed statistics
ResidualStats ==
    [mean |-> 0, p95 |-> 0, p99 |-> 0, entropy |-> 0, zero_mass |-> 0,
     mean_abs |-> 0, bps_res |-> 0]

\* FrameDecisionEngine::FrameDecisionEngine(const CompressionConfig&)
FrameDecisionEngine ==
    [last_keyframe_index_   |-> 0,
     frames_since_keyframe_ |-> 0,
     last_decision_         |-> "USE_INTRA",
     ema_residual_bpp_      |-> 0,
     ema_keyframe_bpp_      |-> 0,
     ema_initialized_       |-> FALSE]

\* decide_mode whose stage 1 waits for one frame more (> instead of >=)
decide_mode_late(engine, config, stats, frame_index) ==
    LET counted == [engine EXCEPT !.frames_since_keyframe_ = @ + 1]
        intra   == [mode   |-> "USE_INTRA",
                    engine |-> [counted EXCEPT !.frames_since_keyframe_ = 0,
                                               !.last_keyframe_index_ = frame_index,
                                               !.last_decision_ = "USE_INTRA"]]
        threshold == IF counted.last_decision_ = "USE_INTRA"
                     THEN counted.ema_keyframe_bpp_ - config.decision_hysteresis_bpp
                     ELSE counted.ema_keyframe_bpp_ + config.decision_hysteresis_bpp
    IN  IF counted.frames_since_keyframe_ > config.gop_period THEN intra
        ELSE IF \/ stats.p95 > config.decision_p95_threshold
                \/ stats.p99 > config.decision_p99_threshold
                \/ stats.entropy > config.decision_entropy_threshold
        THEN intra
        ELSE IF counted.ema_initialized_ /\ counted.ema_residual_bpp_ > threshold
        THEN intra
        ELSE [mode   |-> "USE_RESIDUAL",
              engine |-> [counted EXCEPT !.last_decision_ = "USE_RESIDUAL"]]

\* decide_mode whose p95 test of stage 2 is inverted (< instead of >)
decide_mode_inverted(engine, config, stats, frame_index) ==
    LET counted == [engine EXCEPT !.frames_since_keyframe_ = @ + 1]
        intra   == [mode   |-> "USE_INTRA",
                    engine |-> [counted EXCEPT !.frames_since_keyframe_ = 0,
                                               !.last_keyframe_index_ = frame_index,
                                               !.last_decision_ = "USE_INTRA"]]
        threshold == IF counted.last_decision_ = "USE_INTRA"
                     THEN counted.ema_keyframe_bpp_ - config.decision_hysteresis_bpp
                     ELSE counted.ema_keyframe_bpp_ + config.decision_hysteresis_bpp
    IN  IF counted.frames_since_keyframe_ >= config.gop_period THEN intra
        ELSE IF \/ stats.p95 < config.decision_p95_threshold
                \/ stats.p99 > config.decision_p99_threshold
                \/ stats.entropy > config.decision_entropy_threshold
        THEN intra
        ELSE IF counted.ema_initialized_ /\ counted.ema_residual_bpp_ > threshold
        THEN intra
        ELSE [mode   |-> "USE_RESIDUAL",
              engine |-> [counted EXCEPT !.last_decision_ = "USE_RESIDUAL"]]

\* FrameDecisionEngine::decide_mode: the mode and the engine after the call
decide_mode(engine, config, stats, frame_index) ==
    LET counted == [engine EXCEPT !.frames_since_keyframe_ = @ + 1]
        intra   == [mode   |-> "USE_INTRA",
                    engine |-> [counted EXCEPT !.frames_since_keyframe_ = 0,
                                               !.last_keyframe_index_ = frame_index,
                                               !.last_decision_ = "USE_INTRA"]]
        threshold == IF counted.last_decision_ = "USE_INTRA"
                     THEN counted.ema_keyframe_bpp_ - config.decision_hysteresis_bpp
                     ELSE counted.ema_keyframe_bpp_ + config.decision_hysteresis_bpp
    IN  IF counted.frames_since_keyframe_ >= config.gop_period THEN intra
        ELSE IF \/ stats.p95 > config.decision_p95_threshold
                \/ stats.p99 > config.decision_p99_threshold
                \/ stats.entropy > config.decision_entropy_threshold
        THEN intra
        ELSE IF counted.ema_initialized_ /\ counted.ema_residual_bpp_ > threshold
        THEN intra
        ELSE [mode   |-> "USE_RESIDUAL",
              engine |-> [counted EXCEPT !.last_decision_ = "USE_RESIDUAL"]]

\* FrameDecisionEngine::update_stats; compressed_blocks is the size in
\* blocks of 4096 bytes, alpha = 0.1
update_stats(engine, compressed_blocks, was_keyframe) ==
    LET bits_per_pixel == compressed_blocks * (EmaScale \div 10)
        ema(old)       == (bits_per_pixel + 9 * old) \div 10
    IN  IF ~engine.ema_initialized_
        THEN IF was_keyframe
             THEN [engine EXCEPT !.ema_keyframe_bpp_ = bits_per_pixel,
                                 !.ema_initialized_ = TRUE]
             ELSE [engine EXCEPT !.ema_residual_bpp_ = bits_per_pixel,
                                 !.ema_initialized_ = TRUE]
        ELSE IF was_keyframe
             THEN [engine EXCEPT !.ema_keyframe_bpp_ = ema(@)]
             ELSE [engine EXCEPT !.ema_residual_bpp_ = ema(@)]

----------------------------------------------------------------------------
(* decision.hpp / decision.cpp                                             *)
(* The second decision engine, built from a DecisionState.  Its doubles    *)
(* are scaled by EmaScale like the EMAs above; zero_mass, a fraction, is   *)
(* in percent, and the other statistics are whole numbers.                 *)

\* DecisionState::DecisionState(): the defaults
DecisionState ==
    [bps_intra_ema    |-> (25 * EmaScale) \div 10,
     ema_alpha        |-> [num |-> 1, den |-> 5],
     gop_period       |-> 60,
     gop_max          |-> 120,
     margin_bpp       |-> (3 * EmaScale) \div 10,
     hysteresis_bpp   |-> (15 * EmaScale) \div 100,
     enable_probe     |-> FALSE,
     frames_since_key |-> 0,
     last_mode        |-> "USE_INTRA",
     zero_mass_min    |-> 75,
     mean_abs_max     |-> 12,
     p95_max          |-> 30,
     p99_max          |-> 50]

\* FrameDecisionEngine::should_force_periodic
should_force_periodic(state_, frame_index) ==
    \/ frame_index % state_.gop_period = 0
    \/ state_.frames_since_key >= state_.gop_max

\* FrameDecisionEngine::should_force_heuristic
should_force_heuristic(state_, stats) ==
    IF stats.zero_mass < state_.zero_mass_min THEN TRUE
    ELSE IF stats.mean_abs > state_.mean_abs_max THEN TRUE
    ELSE IF stats.p95 > state_.p95_max \/ stats.p99 > state_.p99_max THEN TRUE
    ELSE FALSE

\* FrameDecisionEngine::should_use_intra_rate
should_use_intra_rate(state_, stats) ==
    LET thresh == IF state_.last_mode = "USE_RESIDUAL"
                  THEN state_.bps_intra_ema - state_.hysteresis_bpp
                  ELSE state_.bps_intra_ema
    IN  stats.bps_res + state_.margin_bpp >= thresh

\* FrameDecisionEngine::decide_mode of decision.cpp; it leaves state_ alone
\* (the probe branch of lines 27-31 is empty)
decision_decide_mode(state_, stats, frame_index) ==
    IF should_force_periodic(state_, frame_index) THEN "USE_INTRA"
    ELSE IF should_force_heuristic(state_, stats) THEN "USE_INTRA"
    ELSE IF should_use_intra_rate(state_, stats) THEN "USE_INTRA"
    ELSE "USE_RESIDUAL"

\* FrameDecisionEngine::update_intra_bpp; keyframe_blocks is the size in
\* blocks of 4096 bytes and width * height a multiple of 32768 pixels
update_intra_bpp(state_, keyframe_blocks, width, height) ==
    LET bpp == (keyframe_blocks * EmaScale) \div ((width * height) \div 32768)
        a   == state_.ema_alpha
    IN  [state_ EXCEPT !.bps_intra_ema = ((a.den - a.num) * @ + a.num * bpp) \div a.den,
                       !.frames_since_key = 0,
                       !.last_mode = "USE_INTRA"]

\* FrameDecisionEngine::mark_residual
mark_residual(state_) ==
    [state_ EXCEPT !.frames_since_key = @ + 1, !.last_mode = "USE_RESIDUAL"]

\* the bin of the |R| histogram (1024 bins, larger magnitudes in the last)
histogram_bin(r) == IF Abs(r) >= 1024 THEN 1023 ELSE Abs(r)

\* the percentile scan of compute_residual_stats (lines 128-146): the first
\* bin at which the cumulative count reaches floor(percent * pixel_count / 100)
residual_percentile(residual, percent) ==
    LET count == (percent * Len(residual)) \div 100
        cumulative(b) == Cardinality({k \in DOMAIN residual : histogram_bin(residual[k]) <= b})
    IN  CHOOSE b \in 0..1023 :
            /\ cumulative(b) >= count
            /\ \A c \in 0..(b - 1) : cumulative(c) < count

\* compute_residual_stats: zero_mass (in percent, rounded down) and the two
\* percentiles; the mean and the entropy estimates are left at their defaults
compute_residual_stats(residual, dead_zone_T) ==
    IF Len(residual) = 0 THEN ResidualStats
    ELSE [ResidualStats EXCEPT
            !.zero_mass = (100 * Cardinality({k \in DOMAIN residual :
                                                 Abs(residual[k]) <= dead_zone_T}))
                             \div Len(residual),
            !.p95 = residual_percentile(residual, 95),
            !.p99 = residual_percentile(residual, 99)]

----------------------------------------------------------------------------
(* Inputs of the codec session *)

\* number of encode calls made on the encoding instance in one session
MaxSteps == 2

\* frame dimensions <<width, height>> of a session
SessionDims == {<<2, 1>>, <<1, 2>>}

\* sample values of the session's frames
SessionSamples == {1000, 1003}

FramesOver(samples, dims) ==
    UNION {{Frame(d[1], d[2], data) : data \in [1..(d[1] * d[2]) -> samples]} : d \in dims}

SessionFrames == FramesOver(SessionSamples, SessionDims)

\* NEAR values handed to the symbol codec
NearSet == {0, 1}

\* the reconstruction errors a coder run at NEAR = near may leave on n
\* samples; the explored coders leave the same error on every sample
ErrSet(near, n) == {[i \in 1..n |-> e] : e \in (0 - near)..near}

\* what can go wrong inside the symbol codec during one call
Faults == {"none", "encode", "decode"}

Rat(n, d) == [num |-> n, den |-> d]

\* (T, Q, fp) triples of the session: the default T=2, Q=2.0, fp=8 and the
\* identity quantizer T=0, Q=1.0
SessionParams ==
    {QuantizationParams(2, Rat(2, 1), 8), QuantizationParams(0, Rat(1, 1), 8)}

QsIdle == [phase |-> "idle"]

PipeIdle == [pc |-> "idle"]

NoParams == [dead_zone_T |-> 0, quant_Q_fixed |-> 0, fp_bits |-> 0]

Call(op, ok, before, frame, near, params, fault, rec, out) ==
    [op |-> op, ok |-> ok, before |-> before, frame |-> frame, near |-> near,
     params |-> params, fault |-> fault, rec |-> rec, out |-> out]

NoCall ==
    Call("none", TRUE, FrameEncoder, EmptyFrame, 0, NoParams, "none",
         CompressedFrame, EmptyFrame)

----------------------------------------------------------------------------
(* The codec session: one FrameEncoder encodes, a second one decodes the  *)
(* emitted records in order.                                               *)

Init ==
    /\ enc = FrameEncoder
    /\ dec = FrameEncoder
    /\ stream = << >>
    /\ last = NoCall
    /\ inSync = TRUE
    /\ cleared = [enc |-> FALSE, dec |-> FALSE]
    /\ steps = 0
    /\ qs = QsIdle
    /\ pipe = PipeIdle

\* enc.encode_intra_frame(frame, near, output, enable_12bit_mode) with a
\* freshly constructed output record
EncodeIntra(frames, limit) ==
    /\ steps < limit
    /\ stream = << >>
    /\ \E frame \in frames, near \in NearSet, en12 \in BOOLEAN, fault \in Faults :
         \E err \in ErrSet(IF fault = "none" THEN near ELSE 0, Len(frame.data)) :
            LET r == encode_intra_frame(enc, frame, near, CompressedFrame, en12, fault, err)
            IN  /\ enc' = r.self
                /\ stream' = IF r.ok THEN Append(stream, r.output) ELSE stream
                /\ last' = Call("encode_intra", r.ok, enc, frame, near, NoParams, fault,
                                r.output, EmptyFrame)
                /\ cleared' = [cleared EXCEPT !.enc = cleared.enc /\ ~r.ok]
    /\ steps' = steps + 1
    /\ UNCHANGED <<dec, inSync, qs, pipe>>

\* enc.encode_residual_frame(frame, near, quant_params, output)
EncodeResidual(frames, limit) ==
    /\ steps < limit
    /\ stream = << >>
    /\ \E frame \in frames, near \in NearSet, params \in SessionParams, fault \in Faults :
         \E err \in ErrSet(IF fault = "none" THEN near ELSE 0, Len(frame.data)) :
            LET r == encode_residual_frame(enc, frame, near, params, CompressedFrame,
                                           fault, err)
            IN  /\ enc' = r.self
                /\ stream' = IF r.ok THEN Append(stream, r.output) ELSE stream
                /\ last' = Call("encode_residual", r.ok, enc, frame, near, params, fault,
                                r.output, EmptyFrame)
    /\ steps' = steps + 1
    /\ UNCHANGED <<dec, inSync, cleared, qs, pipe>>

\* dec.decode_frame(record, output) on the oldest record not yet decoded;
\* last.frame keeps the frame the record was encoded from when that encode
\* was the call before
Decode ==
    /\ stream # << >>
    /\ \E fault \in {"none", "decode"} :
         LET r == decode_frame(dec, Head(stream), fault)
             source == IF last.rec = Head(stream) THEN last.frame ELSE EmptyFrame
         IN  /\ dec' = r.self
             /\ last' = Call("decode", r.ok, dec, source, 0, NoParams, fault,
                             Head(stream), r.output)
             /\ inSync' = (inSync /\ fault = "none")
             /\ cleared' = [cleared EXCEPT
                              !.dec = cleared.dec /\ ~(r.ok /\ Head(stream).is_keyframe)]
    /\ stream' = Tail(stream)
    /\ UNCHANGED <<enc, steps, qs, pipe>>

\* enc.reset()
ResetEnc ==
    /\ last.op # "reset_enc"
    /\ stream = << >>
    /\ enc' = reset(enc)
    /\ last' = Call("reset_enc", TRUE, enc, EmptyFrame, 0, NoParams, "none",
                    CompressedFrame, EmptyFrame)
    /\ inSync' = FALSE
    /\ cleared' = [cleared EXCEPT !.enc = TRUE]
    /\ UNCHANGED <<dec, stream, steps, qs, pipe>>

\* dec.reset()
ResetDec ==
    /\ last.op # "reset_dec"
    /\ dec' = reset(dec)
    /\ last' = Call("reset_dec", TRUE, dec, EmptyFrame, 0, NoParams, "none",
                    CompressedFrame, EmptyFrame)
    /\ inSync' = FALSE
    /\ cleared' = [cleared EXCEPT !.dec = TRUE]
    /\ UNCHANGED <<enc, stream, steps, qs, pipe>>

Next ==
    \/ EncodeIntra(SessionFrames, MaxSteps)
    \/ EncodeResidual(SessionFrames, MaxSteps)
    \/ Decode
    \/ ResetEnc
    \/ ResetDec

Spec == Init /\ [][Next]_vars

----------------------------------------------------------------------------
(* One keyframe through a fresh encoder and a fresh decoder, over frames   *)
(* wide enough for the range map to lose information.                      *)

KeyframeDims == {<<1, 1>>, <<3, 1>>}

KeyframeSamples == {0, 1000, 1003, 6000, 40000, 65535}

KeyframeFrames == FramesOver(KeyframeSamples, KeyframeDims)

KeyframeNext ==
    \/ EncodeIntra(KeyframeFrames, 1)
    \/ Decode

SpecKeyframe == Init /\ [][KeyframeNext]_vars

----------------------------------------------------------------------------
(* The quantizer bench: quantize_residual followed by dequantize_residual  *)
(* on one residual.                                                        *)

\* residuals of the bench: -MaxResidual..MaxResidual and the int16 extremes
MaxResidual == 40

BenchResiduals == ((0 - MaxResidual)..MaxResidual) \cup {-32768, -32767, 32767}

\* dead-zone thresholds 0..MaxDeadZone and the largest one, 2^15 - 1
MaxDeadZone == 4

BenchDeadZones == (0..MaxDeadZone) \cup {32767}

\* steps Q: 1/2 (below the claims' Q >= 1), 1, 3/2, 2, 4, 7
BenchSteps == {Rat(1, 2), Rat(1, 1), Rat(3, 2), Rat(2, 1), Rat(4, 1), Rat(7, 1)}

BenchFpBits == {1, 8, 15}

BenchParams ==
    {QuantizationParams(T, Q, fp) : T \in BenchDeadZones, Q \in BenchSteps, fp \in BenchFpBits}

QuantInit ==
    /\ enc = FrameEncoder
    /\ dec = FrameEncoder
    /\ stream = << >>
    /\ last = NoCall
    /\ inSync = TRUE
    /\ cleared = [enc |-> FALSE, dec |-> FALSE]
    /\ steps = 0
    /\ pipe = PipeIdle
    /\ \E r \in BenchResiduals, params \in BenchParams :
          qs = [phase |-> "input", r |-> r, params |-> params, q |-> 0, r_hat |-> 0]

Quantize ==
    /\ qs.phase = "input"
    /\ qs' = [qs EXCEPT !.phase = "quantized",
                        !.q = quantize_residual(<<qs.r>>, qs.params)[1]]
    /\ UNCHANGED <<enc, dec, stream, last, inSync, cleared, steps, pipe>>

Dequantize ==
    /\ qs.phase = "quantized"
    /\ qs' = [qs EXCEPT !.phase = "done",
                        !.r_hat = dequantize_residual(<<qs.q>>, qs.params)[1]]
    /\ UNCHANGED <<enc, dec, stream, last, inSync, cleared, steps, pipe>>

QuantNext == Quantize \/ Dequantize

SpecQuant == QuantInit /\ [][QuantNext]_vars

----------------------------------------------------------------------------
(* pipeline.cpp: CompressionPipeline::run.  The encoder of the run is enc; *)
(* the records it writes are appended to stream, from where a decoder      *)
(* reads them back.                                                        *)

\* CompressionConfig: the fields the run reads.  decision_hysteresis_bpp is
\* 0.15 bpp, scaled like the EMAs.
Config(gop, rnear, en12) ==
    [gop_period                 |-> gop,
     keyframe_near              |-> 0,
     residual_near              |-> rnear,
     dead_zone_T                |-> 2,
     quant_Q                    |-> Rat(2, 1),
     fp_bits                    |-> 8,
     enable_12bit_mode          |-> en12,
     decision_p95_threshold     |-> 30,
     decision_p99_threshold     |-> 100,
     decision_entropy_threshold |-> 6,
     decision_hysteresis_bpp    |-> (15 * EmaScale) \div 100]

PipelineConfigs == {Config(2, 1, TRUE), Config(3, 0, FALSE)}

PipelineFrames == SessionFrames

\* compressed sizes, in blocks of 4096 bytes (0.1 bpp and 4.0 bpp)
PipelineSizes == {1, 40}

PipelineInit ==
    /\ enc = FrameEncoder
    /\ dec = FrameEncoder
    /\ stream = << >>
    /\ last = NoCall
    /\ inSync = TRUE
    /\ cleared = [enc |-> FALSE, dec |-> FALSE]
    /\ steps = 0
    /\ qs = QsIdle
    /\ \E n \in 1..MaxFiles, config \in PipelineConfigs :
          pipe = [pc |-> "run", i |-> 0, n |-> n, config |-> config,
                  decision_engine |-> FrameDecisionEngine,
                  frames_processed_ |-> 0, modes |-> << >>, reason |-> "none"]

\* what one iteration of the loop of run() (lines 201-278) decides for frame i
pipeline_decide(p) ==
    IF p.i > 0
    THEN decide_mode(p.decision_engine, p.config, ResidualStats, p.i)
    ELSE [mode |-> "USE_INTRA", engine |-> p.decision_engine]

\* pipeline_after_encode that skips a frame whose encode failed and goes on
pipeline_after_encode_skips(p, decided, r, write_ok, size) ==
    LET is_keyframe == (decided.mode = "USE_INTRA")
        p1 == [p EXCEPT !.decision_engine = decided.engine]
    IN  IF ~r.ok THEN [p1 EXCEPT !.i = @ + 1]
        ELSE IF ~write_ok
        THEN [p1 EXCEPT !.pc = "failed", !.reason = "write",
                        !.frames_processed_ = @ + 1]
        ELSE [p1 EXCEPT !.frames_processed_ = @ + 1,
                        !.decision_engine = update_stats(decided.engine, size, is_keyframe),
                        !.modes = Append(@, decided.mode),
                        !.i = @ + 1]

\* the pipeline after encode_frame returned r for frame i (lines 253-270):
\* a failed encode and a failed write end the run
pipeline_after_encode(p, decided, r, write_ok, size) ==
    LET is_keyframe == (decided.mode = "USE_INTRA")
        p1 == [p EXCEPT !.decision_engine = decided.engine]
    IN  IF ~r.ok THEN [p1 EXCEPT !.pc = "failed", !.reason = "encode"]
        ELSE IF ~write_ok
        THEN [p1 EXCEPT !.pc = "failed", !.reason = "write",
                        !.frames_processed_ = @ + 1]
        ELSE [p1 EXCEPT !.frames_processed_ = @ + 1,
                        !.decision_engine = update_stats(decided.engine, size, is_keyframe),
                        !.modes = Append(@, decided.mode),
                        !.i = @ + 1]

\* one iteration of the loop with a frame that loads
RunFrame ==
    /\ pipe.pc = "run"
    /\ pipe.i < pipe.n
    /\ \E frame \in PipelineFrames, fault \in Faults :
         LET decided == pipeline_decide(pipe)
             is_keyframe == (decided.mode = "USE_INTRA")
             near == IF is_keyframe THEN pipe.config.keyframe_near
                                    ELSE pipe.config.residual_near
             quant_params == QuantizationParams(pipe.config.dead_zone_T,
                                                pipe.config.quant_Q, pipe.config.fp_bits)
         IN  \E err \in ErrSet(IF fault = "none" THEN near ELSE 0, Len(frame.data)),
                write_ok \in IF fault = "none" THEN BOOLEAN ELSE {TRUE},
                size \in IF fault = "none" THEN PipelineSizes ELSE {1} :
               LET r == encode_frame(enc, frame, is_keyframe,
                                     pipe.config.keyframe_near, pipe.config.residual_near,
                                     quant_params, CompressedFrame,
                                     pipe.config.enable_12bit_mode, fault, err)
                   p == pipeline_after_encode(pipe, decided, r, write_ok, size)
               IN  /\ enc' = r.self
                   /\ pipe' = p
                   /\ stream' = IF r.ok /\ write_ok THEN Append(stream, r.output) ELSE stream
                   /\ last' = Call(IF is_keyframe THEN "encode_intra" ELSE "encode_residual",
                                   r.ok, enc, frame, near,
                                   IF is_keyframe THEN NoParams ELSE quant_params,
                                   fault, r.output, EmptyFrame)
                   /\ cleared' = [cleared EXCEPT !.enc = cleared.enc /\ ~(r.ok /\ is_keyframe)]
    /\ UNCHANGED <<dec, inSync, steps, qs>>

\* load_frame_from_png fails for frame i (lines 209-212)
LoadFail ==
    /\ pipe.pc = "run"
    /\ pipe.i < pipe.n
    /\ pipe' = [pipe EXCEPT !.pc = "failed", !.reason = "load"]
    /\ UNCHANGED <<enc, dec, stream, last, inSync, cleared, steps, qs>>

\* the loop is over: summary, statistics, return true (lines 280-286)
Finish ==
    /\ pipe.pc = "run"
    /\ pipe.i = pipe.n
    /\ pipe' = [pipe EXCEPT !.pc = "done"]
    /\ UNCHANGED <<enc, dec, stream, last, inSync, cleared, steps, qs>>

PipelineNext ==
    \/ RunFrame
    \/ LoadFail
    \/ Finish
    \/ Decode

SpecPipeline == PipelineInit /\ [][PipelineNext]_vars

----------------------------------------------------------------------------
(* Encode calls over the whole sample range, with steps Q below 1 and with *)
(* output records that the caller reuses from earlier calls.               *)

\* two-sample frames: a range of 32768 or more, a range below 32768, and
\* the two constant frames at the ends of the sample range
WideFrames ==
    {Frame(2, 1, data) : data \in {<<0, 40000>>, <<40000, 65535>>, <<0, 0>>, <<65535, 65535>>}}

\* T=0, Q=0.5 and the default T=2, Q=2.0
WideParams ==
    {QuantizationParams(0, Rat(1, 2), 8), QuantizationParams(2, Rat(2, 1), 8)}

\* a record an earlier intra encode that used the range map has filled
UsedIntraRecord ==
    encode_intra_frame(FrameEncoder, Frame(2, 1, <<40000, 65535>>), 0, CompressedFrame,
                       TRUE, "none", <<0, 0>>).output

\* a record an earlier residual encode has filled
UsedResidualRecord ==
    encode_residual_frame([reference_frame_ |-> Frame(2, 1, <<0, 0>>),
                           reference_frame_initialized_ |-> TRUE],
                          Frame(2, 1, <<0, 0>>), 0, QuantizationParams(2, Rat(2, 1), 8),
                          CompressedFrame, "none", <<0, 0>>).output

\* enc.encode_intra_frame(frame, near, output, enable_12bit_mode), output
\* being a fresh record or one a residual encode has filled before
EncodeIntraInto ==
    /\ steps < MaxSteps
    /\ stream = << >>
    /\ \E frame \in WideFrames, near \in NearSet, en12 \in BOOLEAN, fault \in Faults,
          output \in {CompressedFrame, UsedResidualRecord} :
         \E err \in ErrSet(IF fault = "none" THEN near ELSE 0, Len(frame.data)) :
            LET r == encode_intra_frame(enc, frame, near, output, en12, fault, err)
            IN  /\ enc' = r.self
                /\ stream' = IF r.ok THEN Append(stream, r.output) ELSE stream
                /\ last' = Call("encode_intra", r.ok, enc, frame, near, NoParams, fault,
                                r.output, EmptyFrame)
                             @@ [enable_12bit_mode |-> en12, given |-> output]
                /\ cleared' = [cleared EXCEPT !.enc = cleared.enc /\ ~r.ok]
    /\ steps' = steps + 1
    /\ UNCHANGED <<dec, inSync, qs, pipe>>

\* enc.encode_residual_frame(frame, near, quant_params, output), output being
\* a fresh record or one an intra encode has filled before
EncodeResidualInto ==
    /\ steps < MaxSteps
    /\ stream = << >>
    /\ \E frame \in WideFrames, near \in NearSet, params \in WideParams, fault \in Faults,
          output \in {CompressedFrame, UsedIntraRecord} :
         \E err \in ErrSet(IF fault = "none" THEN near ELSE 0, Len(frame.data)) :
            LET r == encode_residual_frame(enc, frame, near, params, output, fault, err)
            IN  /\ enc' = r.self
                /\ stream' = IF r.ok THEN Append(stream, r.output) ELSE stream
                /\ last' = Call("encode_residual", r.ok, enc, frame, near, params, fault,
                                r.output, EmptyFrame)
                             @@ [given |-> output]
    /\ steps' = steps + 1
    /\ UNCHANGED <<dec, inSync, cleared, qs, pipe>>

WideNext ==
    \/ EncodeIntraInto
    \/ EncodeResidualInto
    \/ Decode

SpecWide == Init /\ [][WideNext]_vars

----------------------------------------------------------------------------
(* The range-map bench: map_to_12bit followed by map_from_12bit on one     *)
(* sample of [min, max].                                                   *)

\* minima of the bench's maps
MapMins == {0, 1000, 29134}

\* ranges max - min of the bench's maps
MapRanges == {0, 1, 2, 5, 4094, 4095, 4096, 5302, 8190, 8191, 32767, 32768, 36401, 65535}

MapSet ==
    UNION {{RangeMap(lo, lo + range) : range \in {r \in MapRanges : lo + r <= 65535}} :
             lo \in MapMins}

\* samples are taken up to MaxOffset above min, below max and above the middle
MaxOffset == 20

MapSamples(map) ==
    {x \in {map.min_value + o : o \in 0..MaxOffset}
             \cup {map.max_value - o : o \in 0..MaxOffset}
             \cup {map.min_value + map.range \div 2 + o : o \in 0..MaxOffset} :
        x >= map.min_value /\ x <= map.max_value}

MapInit ==
    /\ enc = FrameEncoder
    /\ dec = FrameEncoder
    /\ stream = << >>
    /\ last = NoCall
    /\ inSync = TRUE
    /\ cleared = [enc |-> FALSE, dec |-> FALSE]
    /\ steps = 0
    /\ pipe = PipeIdle
    /\ \E map \in MapSet :
         \E x \in MapSamples(map) :
            qs = [phase |-> "unmapped", x |-> x, map |-> map, y |-> 0, x_back |-> 0]

MapTo ==
    /\ qs.phase = "unmapped"
    /\ qs' = [qs EXCEPT !.phase = "mapped", !.y = map_to_12bit(<<qs.x>>, qs.map)[1]]
    /\ UNCHANGED <<enc, dec, stream, last, inSync, cleared, steps, pipe>>

MapFrom ==
    /\ qs.phase = "mapped"
    /\ qs' = [qs EXCEPT !.phase = "restored",
                        !.x_back = map_from_12bit(<<qs.y>>, qs.map)[1]]
    /\ UNCHANGED <<enc, dec, stream, last, inSync, cleared, steps, pipe>>

MapNext == MapTo \/ MapFrom

SpecRangeMap == MapInit /\ [][MapNext]_vars

----------------------------------------------------------------------------
(* The decision engine driven as the loop of run() drives it: frame 0 is   *)
(* intra without a call, every later frame goes through decide_mode, and   *)
(* update_stats follows each frame.  The statistics handed to decide_mode  *)
(* and the compressed sizes fed back are arbitrary.                        *)

EngineConfigs == {Config(gop, 0, FALSE) : gop \in 1..3}

\* the default-constructed statistics and statistics with a heavy tail
EngineStats == {ResidualStats, [ResidualStats EXCEPT !.p99 = 200]}

EngineInit ==
    /\ enc = FrameEncoder
    /\ dec = FrameEncoder
    /\ stream = << >>
    /\ last = NoCall
    /\ inSync = TRUE
    /\ cleared = [enc |-> FALSE, dec |-> FALSE]
    /\ steps = 0
    /\ qs = QsIdle
    /\ \E config \in EngineConfigs :
          pipe = [pc |-> "engine", i |-> 0, config |-> config,
                  decision_engine |-> FrameDecisionEngine, modes |-> << >>]

\* the decision part of one iteration of the loop (lines 217-230, 267-269)
EngineFrame ==
    /\ pipe.pc = "engine"
    /\ pipe.i < MaxFrames
    /\ \E stats \in EngineStats, size \in PipelineSizes :
         LET decided == IF pipe.i > 0
                        THEN decide_mode(pipe.decision_engine, pipe.config, stats, pipe.i)
                        ELSE [mode |-> "USE_INTRA", engine |-> pipe.decision_engine]
             is_keyframe == (decided.mode = "USE_INTRA")
         IN  pipe' = [pipe EXCEPT
                        !.decision_engine = update_stats(decided.engine, size, is_keyframe),
                        !.modes = Append(@, decided.mode),
                        !.i = @ + 1]
    /\ UNCHANGED <<enc, dec, stream, last, inSync, cleared, steps, qs>>

EngineNext == EngineFrame

SpecEngine == EngineInit /\ [][EngineNext]_vars

----------------------------------------------------------------------------
(* The two decision engines driven through their public methods in any    *)
(* order, on statistics of every shape.  Each decide_mode call is also     *)
(* evaluated, from the same engine state and with the same frame index, on *)
(* every statistics record that differs only by a larger p95, p99,         *)
(* mean_abs or entropy.                                                    *)

\* number of method calls made on one engine
MaxCalls == 2

\* low and high values of each statistic; bps_res 0, 2.2 and 5.0 bits
DecisionStats ==
    {[mean |-> 0, p95 |-> p95, p99 |-> p99, entropy |-> entropy,
      zero_mass |-> zero_mass, mean_abs |-> mean_abs, bps_res |-> (bps * EmaScale) \div 10] :
        p95 \in {0, 40}, p99 \in {0, 200}, entropy \in {0, 7},
        zero_mass \in {50, 100}, mean_abs \in {0, 20}, bps \in {0, 22, 50}}

Raised(stats) ==
    {s2 \in DecisionStats :
        /\ s2 # stats
        /\ s2.p95 >= stats.p95 /\ s2.p99 >= stats.p99
        /\ s2.mean_abs >= stats.mean_abs /\ s2.entropy >= stats.entropy
        /\ s2.zero_mass = stats.zero_mass /\ s2.bps_res = stats.bps_res
        /\ s2.mean = stats.mean}

DecisionIndices == {1, 2}

DecisionConfigs == {Config(3, 0, FALSE)}

\* the default state and one with a short GOP (constructor argument)
DecisionStates == {DecisionState, [DecisionState EXCEPT !.gop_period = 2, !.gop_max = 2]}

\* frame sizes whose pixel count is a multiple of 32768
DecisionDims == {<<640, 512>>, <<1280, 512>>}

NoStats == [p95 |-> -1]

DecisionInit ==
    /\ enc = FrameEncoder
    /\ dec = FrameEncoder
    /\ stream = << >>
    /\ last = NoCall
    /\ inSync = TRUE
    /\ cleared = [enc |-> FALSE, dec |-> FALSE]
    /\ steps = 0
    /\ qs = QsIdle
    /\ \/ \E config \in DecisionConfigs :
             pipe = [pc |-> "decision", kind |-> "config", calls |-> 0, config |-> config,
                     engine |-> FrameDecisionEngine, before |-> FrameDecisionEngine,
                     op |-> "none", stats |-> NoStats, frame_index |-> 0,
                     mode |-> "none", again |-> << >>, bpp |-> 0, was_keyframe |-> FALSE,
                     samples |-> {}, first |-> FALSE]
       \/ \E state_ \in DecisionStates :
             pipe = [pc |-> "decision", kind |-> "state", calls |-> 0, config |-> Config(3, 0, FALSE),
                     engine |-> state_, before |-> state_,
                     op |-> "none", stats |-> NoStats, frame_index |-> 0,
                     mode |-> "none", again |-> << >>, bpp |-> 0, was_keyframe |-> FALSE,
                     samples |-> {}, first |-> FALSE]

\* decide_mode of config.cpp
ConfigDecide ==
    /\ pipe.pc = "decision" /\ pipe.kind = "config" /\ pipe.calls < MaxCalls
    /\ \E stats \in DecisionStats, frame_index \in DecisionIndices :
         LET r == decide_mode(pipe.engine, pipe.config, stats, frame_index)
         IN  pipe' = [pipe EXCEPT
                        !.calls = @ + 1, !.op = "decide_mode", !.before = pipe.engine,
                        !.engine = r.engine, !.stats = stats, !.frame_index = frame_index,
                        !.mode = r.mode,
                        !.again = [s2 \in Raised(stats) |->
                                     decide_mode(pipe.engine, pipe.config, s2, frame_index).mode]]
    /\ UNCHANGED <<enc, dec, stream, last, inSync, cleared, steps, qs>>

\* update_stats of config.cpp; the frame is 640x512, so that the hard-coded
\* pixel count of line 201 is the frame's own
ConfigUpdate ==
    /\ pipe.pc = "decision" /\ pipe.kind = "config" /\ pipe.calls < MaxCalls
    /\ \E size \in PipelineSizes, was_keyframe \in BOOLEAN :
         pipe' = [pipe EXCEPT
                    !.calls = @ + 1, !.op = "update_stats", !.before = pipe.engine,
                    !.engine = update_stats(pipe.engine, size, was_keyframe),
                    !.bpp = size * (EmaScale \div 10), !.was_keyframe = was_keyframe,
                    !.samples = @ \cup {was_keyframe},
                    !.first = (was_keyframe \notin pipe.samples)]
    /\ UNCHANGED <<enc, dec, stream, last, inSync, cleared, steps, qs>>

\* decide_mode of decision.cpp
StateDecide ==
    /\ pipe.pc = "decision" /\ pipe.kind = "state" /\ pipe.calls < MaxCalls
    /\ \E stats \in DecisionStats, frame_index \in DecisionIndices :
         pipe' = [pipe EXCEPT
                    !.calls = @ + 1, !.op = "decide_mode", !.before = pipe.engine,
                    !.stats = stats, !.frame_index = frame_index,
                    !.mode = decision_decide_mode(pipe.engine, stats, frame_index),
                    !.again = [s2 \in Raised(stats) |->
                                 decision_decide_mode(pipe.engine, s2, frame_index)]]
    /\ UNCHANGED <<enc, dec, stream, last, inSync, cleared, steps, qs>>

\* update_intra_bpp of decision.cpp
StateUpdateIntra ==
    /\ pipe.pc = "decision" /\ pipe.kind = "state" /\ pipe.calls < MaxCalls
    /\ \E size \in PipelineSizes, dims \in DecisionDims :
         pipe' = [pipe EXCEPT
                    !.calls = @ + 1, !.op = "update_intra_bpp", !.before = pipe.engine,
                    !.engine = update_intra_bpp(pipe.engine, size, dims[1], dims[2]),
                    !.bpp = (size * EmaScale) \div ((dims[1] * dims[2]) \div 32768),
                    !.was_keyframe = TRUE,
                    !.samples = @ \cup {TRUE},
                    !.first = (TRUE \notin pipe.samples)]
    /\ UNCHANGED <<enc, dec, stream, last, inSync, cleared, steps, qs>>

\* mark_residual of decision.cpp
StateMarkResidual ==
    /\ pipe.pc = "decision" /\ pipe.kind = "state" /\ pipe.calls < MaxCalls
    /\ pipe' = [pipe EXCEPT
                  !.calls = @ + 1, !.op = "mark_residual", !.before = pipe.engine,
                  !.engine = mark_residual(pipe.engine)]
    /\ UNCHANGED <<enc, dec, stream, last, inSync, cleared, steps, qs>>

DecisionNext ==
    \/ ConfigDecide
    \/ ConfigUpdate
    \/ StateDecide
    \/ StateUpdateIntra
    \/ StateMarkResidual

SpecDecision == DecisionInit /\ [][DecisionNext]_vars

----------------------------------------------------------------------------
(* reset() against a fresh instance: enc is used for a while and reset,    *)
(* dec is a freshly constructed FrameEncoder, and from then on both are    *)
(* given the same calls with the same arguments and the same codec         *)
(* behaviour.                                                              *)

ResetFrames == {Frame(2, 1, <<1000, 1003>>), Frame(1, 2, <<1003, 1000>>)}

ResetParams == QuantizationParams(2, Rat(2, 1), 8)

\* records a caller may hand to decode_frame: a keyframe of each frame and a
\* residual frame encoded after it
ResetRecords ==
    UNION {LET k == encode_intra_frame(FrameEncoder, f, 0, CompressedFrame, FALSE, "none",
                                       [i \in 1..Len(f.data) |-> 0])
               r == encode_residual_frame(k.self, f, 0, ResetParams, CompressedFrame, "none",
                                          [i \in 1..Len(f.data) |-> 0])
           IN  {k.output, r.output} : f \in ResetFrames}

Twin(op, ok, ok_fresh, rec, rec_fresh, out, out_fresh) ==
    [op |-> op, ok |-> ok, ok_fresh |-> ok_fresh, rec |-> rec, rec_fresh |-> rec_fresh,
     out |-> out, out_fresh |-> out_fresh]

ResetInit ==
    /\ enc = FrameEncoder
    /\ dec = FrameEncoder
    /\ stream = << >>
    /\ last = Twin("none", TRUE, TRUE, CompressedFrame, CompressedFrame, EmptyFrame, EmptyFrame)
    /\ inSync = TRUE
    /\ cleared = [enc |-> FALSE, dec |-> FALSE]
    /\ steps = 0
    /\ qs = QsIdle
    /\ pipe = [pc |-> "history", calls |-> 0]

\* enc.encode_frame(...) before the reset
HistoryEncode ==
    /\ pipe.pc = "history" /\ pipe.calls < MaxSteps
    /\ \E frame \in ResetFrames, is_keyframe \in BOOLEAN, near \in NearSet, fault \in Faults :
         \E err \in ErrSet(IF fault = "none" THEN near ELSE 0, Len(frame.data)) :
            LET r == encode_frame(enc, frame, is_keyframe, near, near, ResetParams,
                                  CompressedFrame, TRUE, fault, err)
            IN  /\ enc' = r.self
                /\ stream' = IF r.ok THEN <<r.output>> ELSE stream
    /\ pipe' = [pipe EXCEPT !.calls = @ + 1]
    /\ UNCHANGED <<dec, last, inSync, cleared, steps, qs>>

\* enc.decode_frame(record, output) before the reset, on the record enc
\* emitted last
HistoryDecode ==
    /\ pipe.pc = "history" /\ pipe.calls < MaxSteps
    /\ stream # << >>
    /\ enc' = decode_frame(enc, Head(stream), "none").self
    /\ pipe' = [pipe EXCEPT !.calls = @ + 1]
    /\ UNCHANGED <<dec, stream, last, inSync, cleared, steps, qs>>

\* enc.reset(); dec is constructed
TwinReset ==
    /\ pipe.pc = "history"
    /\ enc' = reset(enc)
    /\ dec' = FrameEncoder
    /\ stream' = << >>
    /\ cleared' = [cleared EXCEPT !.enc = TRUE]
    /\ pipe' = [pipe EXCEPT !.pc = "replay"]
    /\ last' = [last EXCEPT !.op = "reset"]
    /\ UNCHANGED <<inSync, steps, qs>>

\* the same encode_frame call on both instances
ReplayEncode ==
    /\ pipe.pc = "replay" /\ steps < MaxSteps
    /\ \E frame \in ResetFrames, is_keyframe \in BOOLEAN, near \in NearSet, fault \in Faults :
         \E err \in ErrSet(IF fault = "none" THEN near ELSE 0, Len(frame.data)) :
            LET r == encode_frame(enc, frame, is_keyframe, near, near, ResetParams,
                                  CompressedFrame, TRUE, fault, err)
                f == encode_frame(dec, frame, is_keyframe, near, near, ResetParams,
                                  CompressedFrame, TRUE, fault, err)
            IN  /\ enc' = r.self
                /\ dec' = f.self
                /\ last' = Twin("encode_frame", r.ok, f.ok, r.output, f.output,
                                EmptyFrame, EmptyFrame)
                           @@ [before |-> enc]
    /\ steps' = steps + 1
    /\ UNCHANGED <<stream, inSync, cleared, qs, pipe>>

\* the same decode_frame call on both instances
ReplayDecode ==
    /\ pipe.pc = "replay" /\ steps < MaxSteps
    /\ \E record \in ResetRecords, fault \in {"none", "decode"} :
         LET r == decode_frame(enc, record, fault)
             f == decode_frame(dec, record, fault)
         IN  /\ enc' = r.self
             /\ dec' = f.self
             /\ last' = Twin("decode_frame", r.ok, f.ok, record, record, r.output, f.output)
                        @@ [before |-> enc]
    /\ steps' = steps + 1
    /\ UNCHANGED <<stream, inSync, cleared, qs, pipe>>

ResetNext ==
    \/ HistoryEncode
    \/ HistoryDecode
    \/ TwinReset
    \/ ReplayEncode
    \/ ReplayDecode

SpecReset == ResetInit /\ [][ResetNext]_vars

----------------------------------------------------------------------------
(* One residual record written and read back: an instance encodes a        *)
(* keyframe and a residual frame with quantization parameters of every     *)
(* shape, then decodes the residual record itself, rebuilding the          *)
(* parameters from the record's fields.                                    *)

RecordKeyframe == Frame(2, 1, <<1000, 1000>>)

RecordFrames == {Frame(2, 1, <<1000, 1040>>), Frame(2, 1, <<987, 1003>>), Frame(2, 1, <<1000, 1000>>)}

\* steps Q that are and are not multiples of 2^-fp
RecordSteps == {Rat(1, 3), Rat(1, 2), Rat(1, 1), Rat(17, 10), Rat(2, 1), Rat(7, 1)}

\* fractional bits; 2 * Q_fx * 2^fp stays below 2^31 up to fp = 13 for Q <= 7
RecordFpBits == {1, 8, 13}

RecordParams ==
    {QuantizationParams(T, Q, fp) : T \in {0, 2, 5}, Q \in RecordSteps, fp \in RecordFpBits}

ExactCodec(frame) == [i \in 1..Len(frame.data) |-> 0]

\* enc.encode_intra_frame(keyframe, 0, output, false)
RecordKey ==
    /\ steps = 0
    /\ LET r == encode_intra_frame(enc, RecordKeyframe, 0, CompressedFrame, FALSE, "none",
                                   ExactCodec(RecordKeyframe))
       IN  /\ enc' = r.self
           /\ last' = Call("encode_intra", r.ok, enc, RecordKeyframe, 0, NoParams, "none",
                           r.output, EmptyFrame)
    /\ steps' = 1
    /\ UNCHANGED <<dec, stream, inSync, cleared, qs, pipe>>

\* enc.encode_residual_frame(frame, 0, quant_params, output)
RecordEncode ==
    /\ steps = 1
    /\ \E frame \in RecordFrames, params \in RecordParams :
         LET r == encode_residual_frame(enc, frame, 0, params, CompressedFrame, "none",
                                        ExactCodec(frame))
         IN  /\ enc' = r.self
             /\ stream' = IF r.ok THEN <<r.output>> ELSE stream
             /\ last' = Call("encode_residual", r.ok, enc, frame, 0, params, "none",
                             r.output, EmptyFrame)
    /\ steps' = 2
    /\ UNCHANGED <<dec, inSync, cleared, qs, pipe>>

\* enc.decode_frame(record, output) on the record just written; rebuilt is
\* the QuantizationParams of lines 446-449, last.params stays the encoder's
RecordDecode ==
    /\ steps = 2
    /\ stream # << >>
    /\ LET record == Head(stream)
           r == decode_frame(enc, record, "none")
       IN  /\ enc' = r.self
           /\ last' = Call("decode_own", r.ok, enc, last.frame, 0, last.params, "none",
                           record, r.output)
                      @@ [rebuilt |-> QuantizationParams(record.dead_zone_T, record.quant_Q,
                                                         record.fp_bits)]
    /\ stream' = << >>
    /\ steps' = 3
    /\ UNCHANGED <<dec, inSync, cleared, qs, pipe>>

RecordNext == RecordKey \/ RecordEncode \/ RecordDecode

SpecRecord == Init /\ [][RecordNext]_vars

----------------------------------------------------------------------------
(* main.cpp: main() around CompressionPipeline::run, with the signal       *)
(* handler.  g_interrupted is the flag of main.cpp (line 23); the handler  *)
(* may run between any two iterations of the loop of run(), that is while  *)
(* frame i is the one in progress or about to be loaded.                   *)

\* the second configuration sets the tail thresholds of stage 2 to 2 DN
MainConfigs ==
    {Config(2, 1, FALSE),
     [Config(3, 0, FALSE) EXCEPT !.decision_p95_threshold = 2, !.decision_p99_threshold = 2]}

MainInit ==
    /\ enc = FrameEncoder
    /\ dec = FrameEncoder
    /\ stream = << >>
    /\ last = NoCall
    /\ inSync = TRUE
    /\ cleared = [enc |-> FALSE, dec |-> FALSE]
    /\ steps = 0
    /\ qs = QsIdle
    /\ \E n \in 1..MaxFiles, config \in MainConfigs :
          pipe = [pc |-> "run", i |-> 0, n |-> n, config |-> config,
                  decision_engine |-> FrameDecisionEngine,
                  frames_processed_ |-> 0, modes |-> << >>, reason |-> "none",
                  g_interrupted |-> FALSE, i_at_signal |-> 0, exit_code |-> -1]

\* signal_handler(SIGINT or SIGTERM), lines 25-31
signal_handler ==
    /\ pipe.pc = "run"
    /\ pipe.i < pipe.n
    /\ ~pipe.g_interrupted
    /\ pipe' = [pipe EXCEPT !.g_interrupted = TRUE, !.i_at_signal = pipe.i]
    /\ UNCHANGED <<enc, dec, stream, last, inSync, cleared, steps, qs>>

\* main() after pipeline.run() returned, lines 210-228
MainExit ==
    /\ pipe.pc \in {"done", "failed"}
    /\ pipe' = [pipe EXCEPT !.pc = "exited",
                            !.exit_code = IF pipe.pc = "failed" THEN 1
                                          ELSE IF pipe.g_interrupted THEN 130
                                          ELSE 0]
    /\ UNCHANGED <<enc, dec, stream, last, inSync, cleared, steps, qs>>

MainNext ==
    \/ RunFrame
    \/ LoadFail
    \/ Finish
    \/ signal_handler
    \/ MainExit

SpecMain == MainInit /\ [][MainNext]_vars

----------------------------------------------------------------------------
(* main.cpp: a configuration from the command line or the YAML file goes   *)
(* through CompressionConfig::validate; an accepted one reaches the        *)
(* pipeline, which builds QuantizationParams from it and quantizes the     *)
(* first residual.  1u << (fp_bits - 1) with fp_bits = 0 and a division by *)
(* quant_Q_fixed = 0 are undefined: the run crashes or stores any value.   *)

\* quant_Q: 0, 1/1000, 1/2, 2 and 600; fp_bits around both ends of [1, 16]
CliSteps == {Rat(0, 1), Rat(1, 1000), Rat(1, 2), Rat(2, 1), Rat(600, 1)}

CliFpBits == {0, 1, 8, 16, 17}

CliConfigs ==
    {[Config(gop, 1, FALSE) EXCEPT !.quant_Q = Q, !.fp_bits = fp, !.dead_zone_T = T] :
        gop \in {0, 60}, Q \in CliSteps, fp \in CliFpBits, T \in {0, 2}}

\* residuals of the first residual frame
CliResiduals == {0, 5, -7}

\* what an undefined quantization may leave in quantized[i]
UndefinedSymbols == {-32768, 0, 1, 32767}

\* CompressionConfig::validate, with input_dir and output_dir given
validate(config) ==
    /\ config.gop_period # 0
    /\ config.quant_Q.num > 0
    /\ config.fp_bits <= 16
    /\ config.decision_p95_threshold >= 0 /\ config.decision_p99_threshold >= 0
    /\ config.decision_entropy_threshold >= 0

ConfigInit ==
    /\ enc = FrameEncoder
    /\ dec = FrameEncoder
    /\ stream = << >>
    /\ last = NoCall
    /\ inSync = TRUE
    /\ cleared = [enc |-> FALSE, dec |-> FALSE]
    /\ steps = 0
    /\ qs = QsIdle
    /\ \E config \in CliConfigs :
          pipe = [pc |-> "main", config |-> config, exit_code |-> -1,
                  quant_params |-> NoParams, outcome |-> "none", q |-> 0]

\* main(), lines 195-207: an invalid configuration ends the program with 1
Validate ==
    /\ pipe.pc = "main"
    /\ pipe' = IF validate(pipe.config)
               THEN [pipe EXCEPT !.pc = "run"]
               ELSE [pipe EXCEPT !.pc = "exited", !.exit_code = 1]
    /\ UNCHANGED <<enc, dec, stream, last, inSync, cleared, steps, qs>>

\* run(), lines 234-237, and quantize_residual on one sample of the first
\* residual frame
FirstQuantize ==
    /\ pipe.pc = "run"
    /\ LET quant_params == QuantizationParams(pipe.config.dead_zone_T, pipe.config.quant_Q,
                                              pipe.config.fp_bits)
       IN  \E R \in CliResiduals :
             IF quant_params.fp_bits >= 1 /\ quant_params.quant_Q_fixed >= 1
             THEN pipe' = [pipe EXCEPT !.pc = "quantized", !.quant_params = quant_params,
                                       !.outcome = "defined",
                                       !.q = quantize_residual(<<R>>, quant_params)[1]]
             ELSE \/ pipe' = [pipe EXCEPT !.pc = "quantized", !.quant_params = quant_params,
                                          !.outcome = "crash"]
                  \/ \E q \in UndefinedSymbols :
                        pipe' = [pipe EXCEPT !.pc = "quantized", !.quant_params = quant_params,
                                             !.outcome = "undefined", !.q = q]
    /\ UNCHANGED <<enc, dec, stream, last, inSync, cleared, steps, qs>>

ConfigNext == Validate \/ FirstQuantize

SpecConfig == ConfigInit /\ [][ConfigNext]_vars

----------------------------------------------------------------------------
(* Properties *)

Max2(a, b) == IF a >= b THEN a ELSE b

CeilDiv(a, b) == (a + b - 1) \div b

Ref(self) == self.reference_frame_

InitializedRef(self) == self.reference_frame_initialized_

\* the full decode path of a residual frame: clamp(old + dequantize(quantize(
\* current - old)), 0, 65535)
full_decode_path(old, current, params) ==
    reconstruct_frame(
        dequantize_residual(quantize_residual(compute_residual(current, old), params), params),
        old)

\* C1: closed-loop agreement.  While the decoder has been fed exactly the
\* records the encoder emitted, after each decode both references are
\* present and hold the same samples.
C1_ClosedLoopAgreement ==
    (inSync /\ last.op = "decode")
        => /\ InitializedRef(enc)
           /\ InitializedRef(dec)
           /\ Ref(enc).data = Ref(dec).data

\* C2: a successful residual encode at NEAR = 0 stores the reference the full
\* decode path yields.
C2_ShortCircuitIdentical ==
    (last.op = "encode_residual" /\ last.ok /\ last.near = 0)
        => Ref(enc).data =
               full_decode_path(Ref(last.before).data, last.frame.data, last.params)

\* C3: a successful decode_frame of a keyframe record leaves the decoder
\* with a reference.
C3_IntraDecodeStoresReference ==
    (last.op = "decode" /\ last.ok /\ last.rec.is_keyframe) => InitializedRef(dec)

\* C4: decode_frame of a keyframe record that used the range map returns
\* samples inside [range_min, range_max], equal to the reference the encoder
\* stored for that record.
C4_IntraDecodeInverseMaps ==
    (last.op = "decode" /\ last.ok /\ last.rec.is_keyframe /\ last.rec.use_range_map)
        => /\ \A i \in DOMAIN last.out.data :
                 last.out.data[i] \in last.rec.range_min..last.rec.range_max
           /\ last.out.data = Ref(enc).data

\* C5: encode_residual_frame fails without a reference and on a frame whose
\* width or height differs from the reference's, and leaves the encoder as
\* it was.
C5_ResidualPreconditions ==
    (/\ last.op = "encode_residual"
     /\ \/ ~InitializedRef(last.before)
        \/ last.frame.width # Ref(last.before).width
        \/ last.frame.height # Ref(last.before).height)
        => (~last.ok /\ enc = last.before)

C5_Witness ==
    /\ last.op = "encode_residual"
    /\ last.fault = "none"
    /\ InitializedRef(last.before)
    /\ last.frame.width # Ref(last.before).width
    /\ ~last.ok

\* C6: from reset() until the next successfully processed intra frame the
\* reference is absent, every residual encode and every decode of a residual
\* record fails, and the failed call leaves the object as it was.
C6_ResetClearsReference ==
    /\ cleared.enc => ~InitializedRef(enc)
    /\ cleared.dec => ~InitializedRef(dec)
    /\ (cleared.enc /\ last.op = "encode_residual") => (~last.ok /\ enc = last.before)
    /\ (cleared.dec /\ last.op = "decode" /\ ~last.rec.is_keyframe)
           => (~last.ok /\ dec = last.before)

C6_Witness ==
    /\ cleared.enc
    /\ last.op = "encode_residual"
    /\ last.fault = "none"
    /\ last.frame.width = Ref(last.before).width
    /\ last.frame.height = Ref(last.before).height
    /\ ~last.ok

\* the symbol codec failed inside the last call
FaultHit ==
    \/ last.op = "encode_intra" /\ last.fault # "none"
    \/ /\ last.op = "encode_residual"
       /\ residual_precondition(last.before, last.frame)
       /\ \/ last.fault = "encode"
          \/ last.fault = "decode" /\ last.near > 0
    \/ /\ last.op = "decode"
       /\ last.fault = "decode"
       /\ last.rec.is_keyframe \/ InitializedRef(last.before)

C7_State ==
    /\ (FaultHit /\ last.op = "decode") => (~last.ok /\ dec = last.before)
    /\ (FaultHit /\ last.op # "decode")
           => (~last.ok /\ enc = last.before /\ pipe.pc = "failed" /\ pipe.reason = "encode")

C7_Step ==
    (pipe.pc = "failed" /\ pipe.reason = "encode")
        => (pipe' = pipe /\ enc' = enc /\ Len(stream') <= Len(stream))

\* C7: a codec failure inside encode_intra_frame, encode_residual_frame or
\* decode_frame makes the call fail and leaves the reference as it was, and
\* after a failed encode the pipeline processes no further frame.
C7_FailureKeepsReference == [](C7_State) /\ [][C7_Step]_vars

C7_Witness ==
    /\ last.op = "encode_residual"
    /\ last.fault = "decode"
    /\ last.near > 0
    /\ InitializedRef(last.before)
    /\ ~last.ok
    /\ pipe.pc = "failed"
    /\ pipe.i < pipe.n

BenchStepAtLeastOne == qs.params.quant_Q_fixed >= Pow2(qs.params.fp_bits)

BenchError == Abs(qs.r - qs.r_hat)

\* C9: for T < 2^15 and Q >= 1, |r - dequantize(quantize(r))| <= T + ceil(Q / 2).
C9_RoundTripBound ==
    (qs.phase = "done" /\ BenchStepAtLeastOne /\ qs.params.dead_zone_T < 32768)
        => BenchError <= qs.params.dead_zone_T
                           + CeilDiv(qs.params.quant_Q_fixed, Pow2(qs.params.fp_bits + 1))

C11_ZeroPreservation ==
    /\ (qs.phase \in {"quantized", "done"} /\ qs.r = 0) => qs.q = 0
    /\ (qs.phase = "done" /\ qs.q = 0) => qs.r_hat = 0

\* C12: the quantizer rounds a' / Q to the nearest integer, half up; with
\* T = 2, Q = 2, fp = 8 the residual 5 quantizes to 2 and dequantizes to 5.
C12_RoundsToNearest ==
    /\ (qs.phase \in {"quantized", "done"} /\ Abs(qs.r) <= MaxResidual)
           => LET a2 == Max2(0, Abs(qs.r) - qs.params.dead_zone_T)
                  Q_fixed == qs.params.quant_Q_fixed
              IN  Abs(qs.q) = (2 * a2 * Pow2(qs.params.fp_bits) + Q_fixed) \div (2 * Q_fixed)
    /\ (qs.phase = "done" /\ qs.r = 5 /\ qs.params = QuantizationParams(2, Rat(2, 1), 8))
           => (qs.q = 2 /\ qs.r_hat = 5)

\* the residual the last encode_residual_frame call computed
LastResidual == compute_residual(last.frame.data, Ref(last.before).data)

\* a symbol fits in a signed 16-bit integer
FitsInt16(v) == v \in -32768..32767

SignedMagnitude(R, params) ==
    (IF R >= 0 THEN 1 ELSE -1) * quantize_magnitude(R, params)

\* C13: quantization overflow is fatal.  A residual encode in which the
\* quantized value of some sample does not fit in a signed 16-bit symbol
\* fails.
C13_OverflowIsFatal ==
    (/\ last.op = "encode_residual"
     /\ residual_precondition(last.before, last.frame)
     /\ \E i \in DOMAIN LastResidual :
           ~FitsInt16(SignedMagnitude(LastResidual[i], last.params)))
        => ~last.ok

\* C14: range-map round trip.  For min <= max and x in [min, max],
\* map_from_12bit(map_to_12bit(x)) differs from x by at most
\* ceil(range / 4095).
C14_RangeMapRoundTrip ==
    qs.phase = "restored"
        => /\ qs.y \in 0..4095
           /\ Abs(qs.x - qs.x_back) <= CeilDiv(qs.map.range, 4095)

C14_Witness ==
    /\ qs.phase = "restored"
    /\ qs.map.min_value > 0
    /\ qs.map.range > 4095
    /\ qs.x_back # qs.x

\* C15: an intra record has use_range_map = true iff the 12-bit mode was
\* requested and max - min < 32768; then range_min and range_max are the
\* frame's minimum and maximum and the samples are coded at 12 bits,
\* otherwise at 16 bits; is_keyframe is true and Q, T and fp are zero.
C15_IntraRecordMetadata ==
    (last.op = "encode_intra" /\ last.ok)
        => LET lo   == SeqMin(last.frame.data)
               hi   == SeqMax(last.frame.data)
               used == last.enable_12bit_mode /\ hi - lo < 32768
           IN  /\ last.rec.use_range_map = used
               /\ used => /\ last.rec.range_min = lo
                          /\ last.rec.range_max = hi
                          /\ last.rec.compressed_data.bits = 12
               /\ ~used => last.rec.compressed_data.bits = 16
               /\ last.rec.is_keyframe
               /\ last.rec.quant_Q.num = 0
               /\ last.rec.dead_zone_T = 0
               /\ last.rec.fp_bits = 0

C15_Witness ==
    /\ last.op = "encode_intra"
    /\ last.ok
    /\ last.enable_12bit_mode
    /\ ~last.rec.use_range_map
    /\ last.given.fp_bits > 0

\* C16: the record of a successful residual encode has is_keyframe = false,
\* carries the Q, T and fp used and has use_range_map = false, also when the
\* output record passed in was filled by an intra encode that used the range
\* map.
C16_ResidualRecordMetadata ==
    (last.op = "encode_residual" /\ last.ok)
        => /\ ~last.rec.is_keyframe
           /\ last.rec.quant_Q = get_Q(last.params)
           /\ last.rec.dead_zone_T = last.params.dead_zone_T
           /\ last.rec.fp_bits = last.params.fp_bits
           /\ ~last.rec.use_range_map

\* the residual the closed loop of the last encode_residual_frame call
\* dequantized from the record
LastDequantized ==
    dequantize_residual(unbias_to_signed(last.rec.compressed_data.samples), last.params)

\* C17: reconstruction saturates.  The reference written by a closed-loop
\* residual encode is clamp(p + r, 0, 65535) sample by sample, and every
\* reference sample stays within [0, 65535].
C17_ReconstructionSaturates ==
    /\ \A i \in DOMAIN Ref(enc).data : Ref(enc).data[i] \in 0..65535
    /\ \A i \in DOMAIN Ref(dec).data : Ref(dec).data[i] \in 0..65535
    /\ (last.op = "encode_residual" /\ last.ok /\ last.near > 0)
           => Ref(enc).data =
                  [i \in DOMAIN LastDequantized |->
                      Clamp(Ref(last.before).data[i] + LastDequantized[i], 0, 65535)]

C17_Witness ==
    /\ last.op = "encode_residual"
    /\ last.ok
    /\ last.near > 0
    /\ \E i \in DOMAIN LastDequantized :
          Ref(last.before).data[i] + LastDequantized[i] > 65535
    /\ \E i \in DOMAIN LastDequantized :
          Ref(last.before).data[i] + LastDequantized[i] < 0

\* C18: periodic invariant.  In the emitted mode sequence fewer than
\* gop_period residual frames lie between two successive intra frames: no
\* gop_period frames in a row are all residual.
C18_PeriodicInvariant ==
    pipe.pc = "engine"
        => \A k \in 1..(Len(pipe.modes) - pipe.config.gop_period + 1) :
              \E j \in k..(k + pipe.config.gop_period - 1) : pipe.modes[j] = "USE_INTRA"

C18_Witness ==
    /\ pipe.pc = "engine"
    /\ pipe.config.gop_period = 3
    /\ \E k \in 1..(Len(pipe.modes) - 3) :
          /\ pipe.modes[k] = "USE_INTRA"
          /\ pipe.modes[k + 1] = "USE_RESIDUAL"
          /\ pipe.modes[k + 2] = "USE_RESIDUAL"
          /\ pipe.modes[k + 3] = "USE_INTRA"

GopScenario ==
    <<"USE_INTRA", "USE_RESIDUAL", "USE_RESIDUAL", "USE_INTRA", "USE_RESIDUAL",
      "USE_RESIDUAL", "USE_INTRA", "USE_RESIDUAL", "USE_RESIDUAL", "USE_INTRA">>

\* C19: GOP forcing.  With gop_period = 3 and a stationary sequence the
\* pipeline emits I R R I R R I R R I, whatever the compressed sizes: after
\* the second of two equal frames the modes are I R.
C19_GopForcing ==
    (/\ pipe.pc \in {"run", "done"}
     /\ pipe.config.gop_period = 3
     /\ Len(pipe.modes) = 2
     /\ last.op \in {"encode_intra", "encode_residual"}
     /\ last.frame.data = Ref(last.before).data)
        => pipe.modes = SubSeq(GopScenario, 1, 2)

\* C20: stage 1 forces intra on index multiples.  Every frame whose index i
\* has i % gop_period = 0 is emitted intra, and since_key is 0 after an
\* intra frame.
C20_IndexMultiplesAreIntra ==
    pipe.pc = "engine"
        => /\ \A k \in DOMAIN pipe.modes :
                 ((k - 1) % pipe.config.gop_period = 0) => pipe.modes[k] = "USE_INTRA"
           /\ (pipe.modes # << >> /\ pipe.modes[Len(pipe.modes)] = "USE_INTRA")
                 => pipe.decision_engine.frames_since_keyframe_ = 0

\* the five stage-2 conditions of the specification, with the thresholds of
\* the engine that was called
HeuristicHolds ==
    IF pipe.kind = "config"
    THEN \/ pipe.stats.zero_mass < 75
         \/ pipe.stats.mean_abs > 12
         \/ pipe.stats.p95 > pipe.config.decision_p95_threshold
         \/ pipe.stats.p99 > pipe.config.decision_p99_threshold
         \/ pipe.stats.entropy > pipe.config.decision_entropy_threshold
    ELSE \/ pipe.stats.zero_mass < pipe.before.zero_mass_min
         \/ pipe.stats.mean_abs > pipe.before.mean_abs_max
         \/ pipe.stats.p95 > pipe.before.p95_max
         \/ pipe.stats.p99 > pipe.before.p99_max
         \/ pipe.stats.entropy > 6

\* C21: stage 2 heuristic forcing.  A decide_mode call of either engine whose
\* statistics satisfy one of zero_mass < zero_mass_min, mean_abs >
\* mean_abs_max, p95 > p95_max, p99 > p99_max, entropy > entropy_max returns
\* USE_INTRA, in every engine state.
C21_HeuristicForcing ==
    (pipe.pc = "decision" /\ pipe.op = "decide_mode" /\ HeuristicHolds)
        => pipe.mode = "USE_INTRA"


\* C22: decision monotonicity.  When a decide_mode call returns USE_INTRA,
\* the call made from the same engine state with the same frame index on
\* statistics that differ only by a larger p95, p99, mean_abs or entropy
\* returns USE_INTRA too.
C22_DecisionMonotone ==
    (pipe.pc = "decision" /\ pipe.op = "decide_mode" /\ pipe.mode = "USE_INTRA")
        => \A s2 \in DOMAIN pipe.again : pipe.again[s2] = "USE_INTRA"

\* an intra decision that stage 2 took on the p99 alone, with larger
\* statistics to compare against, in an engine with EMA history
C22_Witness ==
    /\ pipe.pc = "decision" /\ pipe.op = "decide_mode" /\ pipe.kind = "config"
    /\ pipe.mode = "USE_INTRA"
    /\ pipe.before.ema_initialized_
    /\ pipe.before.frames_since_keyframe_ + 1 < pipe.config.gop_period
    /\ pipe.stats.p99 = 200 /\ pipe.stats.p95 = 0 /\ pipe.stats.entropy = 0
    /\ \E s2 \in DOMAIN pipe.again : s2.p95 = 40 /\ s2.entropy = 7


\* the engine state a decide_mode call of the bench started from, in the
\* terms of the specification
BenchSinceKey ==
    IF pipe.kind = "config" THEN pipe.before.frames_since_keyframe_ + 1
    ELSE pipe.before.frames_since_key

BenchGop == IF pipe.kind = "config" THEN pipe.config.gop_period ELSE pipe.before.gop_period

BenchIntraEma ==
    IF pipe.kind = "config" THEN pipe.before.ema_keyframe_bpp_ ELSE pipe.before.bps_intra_ema

BenchLastMode ==
    IF pipe.kind = "config" THEN pipe.before.last_decision_ ELSE pipe.before.last_mode

BenchHysteresis ==
    IF pipe.kind = "config" THEN pipe.config.decision_hysteresis_bpp
    ELSE pipe.before.hysteresis_bpp

\* margin_bpp: 0.3 bpp (CompressionConfig has no such field)
BenchMargin == (3 * EmaScale) \div 10

\* a decide_mode call that neither stage 1 nor stage 2 decides
ReachesStageThree ==
    /\ pipe.pc = "decision" /\ pipe.op = "decide_mode"
    /\ ~HeuristicHolds
    /\ BenchSinceKey < BenchGop
    /\ pipe.frame_index % BenchGop # 0
    /\ pipe.kind = "state" => pipe.before.frames_since_key < pipe.before.gop_max

\* C23: stage 3 rate decision with hysteresis.  When stages 1 and 2 do not
\* force intra and a keyframe size has been reported, the frame is intra
\* exactly when bps_res + margin_bpp >= E_I - hysteresis_bpp (last mode
\* residual) or E_I + hysteresis_bpp (last mode intra); when no size has been
\* reported the frame is residual.
C23_RateDecision ==
    ReachesStageThree
        => IF TRUE \in pipe.samples
           THEN (pipe.mode = "USE_INTRA")
                   <=> (pipe.stats.bps_res + BenchMargin
                           >= (IF BenchLastMode = "USE_RESIDUAL"
                               THEN BenchIntraEma - BenchHysteresis
                               ELSE BenchIntraEma + BenchHysteresis))
           ELSE (pipe.samples = {}) => pipe.mode = "USE_RESIDUAL"


\* C24: EMA initialisation.  The first keyframe size reported sets E_I to
\* that frame's bpp and the first residual size reported sets E_R to that
\* frame's bpp, in either order; a keyframe sample leaves E_R alone and a
\* residual sample leaves E_I alone.
C24_FirstSampleSetsEma ==
    (pipe.pc = "decision" /\ pipe.op \in {"update_stats", "update_intra_bpp"})
        => IF pipe.kind = "config"
           THEN /\ (pipe.first /\ pipe.was_keyframe)
                      => pipe.engine.ema_keyframe_bpp_ = pipe.bpp
                /\ (pipe.first /\ ~pipe.was_keyframe)
                      => pipe.engine.ema_residual_bpp_ = pipe.bpp
                /\ pipe.was_keyframe
                      => pipe.engine.ema_residual_bpp_ = pipe.before.ema_residual_bpp_
                /\ ~pipe.was_keyframe
                      => pipe.engine.ema_keyframe_bpp_ = pipe.before.ema_keyframe_bpp_
           ELSE pipe.first => pipe.engine.bps_intra_ema = pipe.bpp


\* the reference of an instance as its callers can tell it: absent, or the
\* reconstructed frame
RefView(self) ==
    IF self.reference_frame_initialized_
    THEN [present |-> TRUE, frame |-> self.reference_frame_]
    ELSE [present |-> FALSE, frame |-> EmptyFrame]

\* C25: no hidden state carries across reset.  After reset(), every call
\* gives the result, the record (or decoded frame) and the reference that
\* the same call sequence gives on a freshly constructed FrameEncoder.
C25_ResetEqualsFresh ==
    pipe.pc = "replay"
        => /\ last.ok = last.ok_fresh
           /\ last.rec = last.rec_fresh
           /\ last.out = last.out_fresh
           /\ RefView(enc) = RefView(dec)

\* a residual encode that succeeds after the reset, on an instance that had
\* a different reference before it
C25_Witness ==
    /\ pipe.pc = "replay"
    /\ last.op = "encode_frame" /\ last.ok /\ ~last.rec.is_keyframe
    /\ enc.reference_frame_initialized_
    /\ pipe.calls > 0
    /\ steps = 2


\* C26: interrupt handling.  Once SIGINT or SIGTERM has arrived while frame
\* i was in progress, the pipeline finishes at most that frame and starts no
\* further one, and a run that did not fail exits with code 130.
C26_InterruptStopsRun ==
    (pipe.pc \in {"run", "done", "failed", "exited"} /\ pipe.g_interrupted)
        => /\ pipe.i <= pipe.i_at_signal + 1
           /\ (pipe.pc = "exited" /\ pipe.reason = "none") => pipe.exit_code = 130


\* C27: the decoder rebuilds the encoder's quantization parameters.  The
\* QuantizationParams built from a residual record's dead_zone_T, quant_Q and
\* fp_bits equal the ones the encoder quantized with, and the frame decoded
\* with them is the one the encoder's parameters dequantize to.
C27_DecoderRebuildsParams ==
    (last.op = "decode_own" /\ last.ok)
        => /\ last.rebuilt = last.params
           /\ last.out.data =
                 add_residual_to_reference(
                     last.before.reference_frame_.data,
                     dequantize_residual(unbias_to_signed(last.rec.compressed_data.samples),
                                         last.params))

\* a record whose step is not a multiple of 2^-fp (Q = 1.7, Q_fx = 435) and
\* carries a nonzero symbol
C27_Witness ==
    /\ last.op = "decode_own" /\ last.ok
    /\ last.params.quant_Q_fixed = 435 /\ last.params.fp_bits = 8
    /\ \E i \in DOMAIN last.rec.compressed_data.samples :
          last.rec.compressed_data.samples[i] # 32768
    /\ last.out.data # last.before.reference_frame_.data


\* the residual statistics of the frame of the last encode call against the
\* reference the encoder held before it
LastFrameStats ==
    compute_residual_stats(compute_residual(last.frame.data, Ref(last.before).data),
                           pipe.config.dead_zone_T)

\* C28: the pipeline decides on the frame's residual statistics.  A frame
\* after the first whose residual p95 or p99 against the current reference
\* exceeds the configured threshold is emitted intra.
C28_SceneChangeIsIntra ==
    (/\ pipe.pc \in {"run", "done", "exited"}
     /\ Len(pipe.modes) >= 2
     /\ last.op \in {"encode_intra", "encode_residual"} /\ last.ok
     /\ InitializedRef(last.before)
     /\ last.frame.width = Ref(last.before).width
     /\ last.frame.height = Ref(last.before).height
     /\ \/ LastFrameStats.p95 > pipe.config.decision_p95_threshold
        \/ LastFrameStats.p99 > pipe.config.decision_p99_threshold)
        => pipe.modes[Len(pipe.modes)] = "USE_INTRA"


\* C29: decode_frame checks the record's dimensions.  Decoding a residual
\* record whose width or height differs from the reference's fails and
\* leaves the reference as it was.
C29_DecodeChecksDimensions ==
    (/\ pipe.pc = "replay"
     /\ last.op = "decode_frame"
     /\ ~last.rec.is_keyframe
     /\ InitializedRef(last.before)
     /\ \/ last.rec.width # Ref(last.before).width
        \/ last.rec.height # Ref(last.before).height)
        => (~last.ok /\ enc = last.before)


\* C30: validate guards the quantizer.  Every configuration that validate
\* accepts gives QuantizationParams with fp in [1, 16] and Q_fx >= 1, so the
\* quantization is defined; every other configuration ends the program with
\* exit code 1 before a frame is encoded.
C30_ValidateGuardsQuantizer ==
    /\ pipe.pc = "quantized"
          => /\ pipe.quant_params.fp_bits \in 1..16
             /\ pipe.quant_params.quant_Q_fixed >= 1
             /\ pipe.outcome = "defined"
    /\ pipe.pc = "exited" => pipe.exit_code = 1


====
